---- MODULE Spec2Model ----
(***************************************************************************)
(* Model of src-tauri/src/lib.rs: the frame pipe (outbound) relay, made of *)
(* the shared writer slot behind a Tokio mutex, the background connector   *)
(* tasks and the send_frame_data command; and the transform pipe (inbound) *)
(* listener.  The two halves share no state in the source and are checked  *)
(* as two specifications over one set of variables.                        *)
(***************************************************************************)
EXTENDS Integers, Sequences, FiniteSets, TLC

\* ---------------------------------------------------------------- bounds
MaxCalls == 2        \* invocations of send_frame_data in one behaviour
MaxHandles == 2      \* frame pipe connections opened in one behaviour
MaxConnTasks == 2    \* pool of task ids for spawned connection loops
WriteChunk == 4      \* size of a partial write accepted by the pipe
MaxTConns == 2       \* transform pipe connections opened in one behaviour
MaxSends == 3        \* chunks the native process sends on the transform pipe
MaxFails == 1        \* failed opens in a row that are told apart
MaxBufLen == 66      \* longest slice handed to deserialize_matrix on its own

\* ------------------------------------------------------- program constants
HEADER_SIZE == 8
TRANSFORM_DATA_SIZE == 64
MATRIX_LEN == 16
WORD_SIZE == 4       \* bytes of a u32 and of an f32

\* Calls are numbered in the order the dispatcher invokes them.
Senders == 1..MaxCalls
ConnTasks == 1..MaxConnTasks
Handles == 1..MaxHandles
None == 0            \* Option::None in the writer slot

NoTask == <<"none", 0>>
SendTask(s) == <<"send", s>>
ConnTask(c) == <<"conn", c>>

\* Requests a caller may pass to send_frame_data: the body is Raw(bytes) or
\* not raw (Json).  Headers are width and height as u32 little-endian.
RawReq(bytes) == [raw |-> TRUE, bytes |-> bytes]
JsonReq == [raw |-> FALSE, bytes |-> <<>>]
Requests ==
    { JsonReq,
      RawReq(<<1, 0, 0, 0, 1, 0, 0>>),                 \* 7 bytes: too short
      RawReq(<<0, 0, 0, 0, 0, 0, 0, 0>>),              \* 0 x 0, no data
      RawReq(<<2, 0, 0, 0, 1, 0, 0, 0, 7>>) }          \* 2 x 1, 1 data byte

VARIABLES
    pipe_writer,   \* FramePipeState.pipe_writer: None or the stored handle
    lock,          \* task holding the Tokio mutex, or NoTask
    waitq,         \* tasks suspended in lock().await, in arrival order
    snd,           \* per send_frame_data call: its position and locals
    conn,          \* per connection-loop task: its position and its client
    pipe,          \* per handle: the bytes written to that connection
    failed,        \* per handle: a write_all on it returned an error
    openedAfter,   \* per handle: the handles that had failed when it was opened
    nextHandle,    \* the next connection opened gets this handle
    calls          \* send_frame_data invocations so far

frameVars == <<pipe_writer, lock, waitq, snd, conn, pipe, failed, openedAfter,
               nextHandle, calls>>

VARIABLES
    tpc,           \* transform_pipe_listener: where the task is
    tconn,         \* transform pipe connections opened so far
    closed,        \* the current connection's far end: "open", "eof", "broken"
    inflight,      \* bytes sent on the current connection and not yet read
    buffer,        \* the part of `buffer` the pending read_exact has filled
    bufFrom,       \* the connections whose bytes are in buffer
    matrix,        \* the deserialized matrix about to be emitted
    stream,        \* per connection: every byte the native process sent on it
    records,       \* the complete records read_exact returned, in order
    events,        \* the emit calls made, in order, with their outcome
    sends,         \* chunks sent so far
    reconnects,    \* times handle_transform_connection has returned
    tfails         \* failed opens since the listener last began to connect

transformVars == <<tpc, tconn, closed, inflight, buffer, bufFrom, matrix, stream,
                   records, events, sends, reconnects, tfails>>

vars == <<frameVars, transformVars>>

\* ------------------------------------------------------------ the mutex
\* tokio::sync::Mutex: lock() takes the mutex when it is free and otherwise
\* queues the task; dropping the guard hands the mutex to the first waiter.
Acquire(t) ==
    IF lock = NoTask
        THEN /\ lock' = t
             /\ waitq' = waitq
        ELSE /\ lock' = lock
             /\ waitq' = Append(waitq, t)

\* Faulty variant: the guard's drop frees the mutex and wakes nobody.
ReleaseForgetsWaiter ==
    /\ lock' = NoTask
    /\ waitq' = waitq

Release ==
    IF waitq = <<>>
        THEN /\ lock' = NoTask
             /\ waitq' = waitq
        ELSE /\ lock' = Head(waitq)
             /\ waitq' = Tail(waitq)


\* ------------------------------------------------------- send_frame_data
\* byteorder's read_u32::<LittleEndian> on a Cursor over buf at position pos:
\* an error when fewer than 4 bytes remain, else the value and the new position.
ReadU32LE(buf, pos) ==
    IF pos + WORD_SIZE > Len(buf)
        THEN [ok |-> FALSE, val |-> 0, pos |-> pos]
        ELSE [ok |-> TRUE,
              val |-> buf[pos + 1] + 256 * buf[pos + 2]
                      + 65536 * buf[pos + 3] + 16777216 * buf[pos + 4],
              pos |-> pos + WORD_SIZE]

ErrNotRaw == "RequestBodyMustBeRaw"
ErrTooSmall == "Payload too small for header"
ErrWidth == "Failed to read width from payload"
ErrHeight == "Failed to read height from payload"
ErrNotConnected == "Frame pipe not connected"
ErrWrite == "Error writing frame payload"
RetOk == "Ok"
Pending == "pending"

\* Faulty variant: the length check before the header parse is missing.
ParseRequestSkipsLength(req) ==
    IF ~req.raw THEN ErrNotRaw ELSE "ok"

\* The checks made before the lock is requested: "ok" or the error returned.
ParseRequest(req) ==
    IF ~req.raw THEN ErrNotRaw
    ELSE IF Len(req.bytes) < HEADER_SIZE THEN ErrTooSmall
    ELSE LET hdr == SubSeq(req.bytes, 1, HEADER_SIZE)
             width == ReadU32LE(hdr, 0)
             height == ReadU32LE(hdr, width.pos)
         IN  IF ~width.ok THEN ErrWidth
             ELSE IF ~height.ok THEN ErrHeight
             ELSE "ok"

IdleCall == [pc |-> "idle", req |-> JsonReq, w |-> None, start |-> 0, n |-> 0,
             ret |-> Pending, tries |-> 0, spawned |-> 0, turn |-> 0]

\* Calls that have held the mutex so far.
LockTurns == Cardinality({u \in Senders : snd[u].turn > 0})

\* The dispatcher invokes the command with some request.
Invoke(s, r) ==
    /\ snd[s].pc = "idle"
    /\ s = calls + 1
    /\ calls' = calls + 1
    /\ snd' = [snd EXCEPT ![s] = [IdleCall EXCEPT !.pc = "start", !.req = r]]
    /\ UNCHANGED <<pipe_writer, lock, waitq, conn, pipe, failed, openedAfter, nextHandle>>
    /\ UNCHANGED transformVars

\* Body extraction, length check and header parse.
Validate(s) ==
    /\ snd[s].pc = "start"
    /\ LET e == ParseRequest(snd[s].req)
       IN  snd' = [snd EXCEPT ![s] =
                      IF e = "ok" THEN [@ EXCEPT !.pc = "lock"]
                      ELSE [@ EXCEPT !.pc = "done", !.ret = e]]
    /\ UNCHANGED <<pipe_writer, lock, waitq, conn, pipe, failed, openedAfter, nextHandle, calls>>
    /\ UNCHANGED transformVars

\* Faulty variant: the call goes on without the mutex.
SendLockSkips(s) ==
    /\ snd[s].pc = "lock"
    /\ snd' = [snd EXCEPT ![s].pc = "locked"]
    /\ UNCHANGED <<pipe_writer, lock, waitq, conn, pipe, failed, openedAfter,
                   nextHandle, calls>>
    /\ UNCHANGED transformVars

\* state.pipe_writer.lock().await
SendLock(s) ==
    /\ snd[s].pc = "lock"
    /\ Acquire(SendTask(s))
    /\ snd' = [snd EXCEPT ![s].pc = IF lock = NoTask THEN "locked" ELSE "wait"]
    /\ UNCHANGED <<pipe_writer, conn, pipe, failed, openedAfter, nextHandle, calls>>
    /\ UNCHANGED transformVars

\* The suspended lock() future completes once the mutex was handed over.
SendWake(s) ==
    /\ snd[s].pc = "wait"
    /\ lock = SendTask(s)
    /\ snd' = [snd EXCEPT ![s].pc = "locked"]
    /\ UNCHANGED <<pipe_writer, lock, waitq, conn, pipe, failed, openedAfter, nextHandle, calls>>
    /\ UNCHANGED transformVars

\* Faulty variant: a send that finds the slot empty starts a connection loop itself.
CheckSlotSpawns(s) ==
    /\ snd[s].pc = "locked"
    /\ IF pipe_writer = None
          THEN /\ snd' = [snd EXCEPT ![s] = [@ EXCEPT !.pc = "done",
                                                       !.ret = ErrNotConnected,
                                                       !.tries = @ + 1,
                                                       !.spawned = @ + 1]]
               /\ conn' = [conn EXCEPT ![MaxConnTasks] = [pc |-> "open", h |-> None]]
               /\ Release
          ELSE /\ snd' = [snd EXCEPT ![s] = [@ EXCEPT !.pc = "write",
                                                       !.w = pipe_writer,
                                                       !.start = Len(pipe[pipe_writer]),
                                                       !.n = 0,
                                                       !.tries = @ + 1]]
               /\ UNCHANGED <<lock, waitq, conn>>
    /\ UNCHANGED <<pipe_writer, pipe, failed, openedAfter, nextHandle, calls>>
    /\ UNCHANGED transformVars

\* Faulty variant: the bounded-retry design, a second look at the slot before giving up.
CheckSlotRetries(s) ==
    /\ snd[s].pc = "locked"
    /\ IF pipe_writer = None
          THEN IF snd[s].tries = 0
                  THEN /\ snd' = [snd EXCEPT ![s].tries = @ + 1]
                       /\ UNCHANGED <<lock, waitq>>
                  ELSE /\ snd' = [snd EXCEPT ![s] = [@ EXCEPT !.pc = "done",
                                                               !.ret = ErrNotConnected,
                                                               !.tries = @ + 1]]
                       /\ Release
          ELSE /\ snd' = [snd EXCEPT ![s] = [@ EXCEPT !.pc = "write",
                                                       !.w = pipe_writer,
                                                       !.start = Len(pipe[pipe_writer]),
                                                       !.n = 0,
                                                       !.tries = @ + 1]]
               /\ UNCHANGED <<lock, waitq>>
    /\ UNCHANGED <<pipe_writer, conn, pipe, failed, openedAfter, nextHandle, calls>>
    /\ UNCHANGED transformVars

\* Faulty variant: the writer is taken out of the slot for the time of the write.
CheckSlotTakes(s) ==
    /\ snd[s].pc = "locked"
    /\ IF pipe_writer = None
          THEN /\ snd' = [snd EXCEPT ![s] = [@ EXCEPT !.pc = "done",
                                                       !.ret = ErrNotConnected,
                                                       !.tries = @ + 1,
                                                       !.turn = LockTurns + 1]]
               /\ Release
          ELSE /\ snd' = [snd EXCEPT ![s] = [@ EXCEPT !.pc = "write",
                                                       !.w = pipe_writer,
                                                       !.start = Len(pipe[pipe_writer]),
                                                       !.n = 0,
                                                       !.tries = @ + 1,
                                                       !.turn = LockTurns + 1]]
               /\ UNCHANGED <<lock, waitq>>
    /\ pipe_writer' = None
    /\ UNCHANGED <<conn, pipe, failed, openedAfter, nextHandle, calls>>
    /\ UNCHANGED transformVars

\* if let Some(writer) = pipe_guard.as_mut() ... else Err(not connected)
CheckSlot(s) ==
    /\ snd[s].pc = "locked"
    /\ IF pipe_writer = None
          THEN /\ snd' = [snd EXCEPT ![s] = [@ EXCEPT !.pc = "done",
                                                       !.ret = ErrNotConnected,
                                                       !.tries = @ + 1,
                                                       !.turn = LockTurns + 1]]
               /\ Release
          ELSE /\ snd' = [snd EXCEPT ![s] = [@ EXCEPT !.pc = "write",
                                                       !.w = pipe_writer,
                                                       !.start = Len(pipe[pipe_writer]),
                                                       !.n = 0,
                                                       !.tries = @ + 1,
                                                       !.turn = LockTurns + 1]]
               /\ UNCHANGED <<lock, waitq>>
    /\ UNCHANGED <<pipe_writer, conn, pipe, failed, openedAfter, nextHandle, calls>>
    /\ UNCHANGED transformVars

\* Faulty variant: only the image data after the header is written.
WriteDataOnly(req) == SubSeq(req.bytes, HEADER_SIZE + 1, Len(req.bytes))

\* The bytes write_all hands to the pipe: the request's whole payload.
WritePayload(req) == req.bytes

\* Sizes of the next partial write when rest bytes remain.
ChunkSizes(rest) == {k \in 1..rest : k = rest \/ k = WriteChunk}

\* Faulty variant: write instead of write_all, Ok after the first partial write.
WriteOnce(s, k) ==
    /\ snd[s].pc = "write"
    /\ LET buf == snd[s].req.bytes
           h == snd[s].w
       IN  /\ k \in ChunkSizes(Len(buf) - snd[s].n)
           /\ pipe' = [pipe EXCEPT ![h] = @ \o SubSeq(buf, snd[s].n + 1, snd[s].n + k)]
           /\ snd' = [snd EXCEPT ![s] = [@ EXCEPT !.pc = "done", !.ret = RetOk,
                                                   !.n = @ + k]]
           /\ Release
    /\ UNCHANGED <<pipe_writer, conn, failed, openedAfter, nextHandle, calls>>
    /\ UNCHANGED transformVars

\* One poll of writer.write_all(&payload): the pipe accepts k more bytes; when
\* the payload is complete the command returns Ok(()) and drops the guard.
WriteOk(s, k) ==
    /\ snd[s].pc = "write"
    /\ LET buf == WritePayload(snd[s].req)
           h == snd[s].w
       IN  /\ k \in ChunkSizes(Len(buf) - snd[s].n)
           /\ pipe' = [pipe EXCEPT ![h] = @ \o SubSeq(buf, snd[s].n + 1, snd[s].n + k)]
           /\ IF snd[s].n + k = Len(buf)
                 THEN /\ snd' = [snd EXCEPT ![s] = [@ EXCEPT !.pc = "done",
                                                              !.ret = RetOk,
                                                              !.n = @ + k]]
                      /\ Release
                 ELSE /\ snd' = [snd EXCEPT ![s].n = @ + k]
                      /\ UNCHANGED <<lock, waitq>>
    /\ UNCHANGED <<pipe_writer, conn, failed, openedAfter, nextHandle, calls>>
    /\ UNCHANGED transformVars

\* Faulty variant: the guard is dropped as soon as the write fails, before the slot
\* is cleared.
WriteErrUnlocks(s) ==
    /\ snd[s].pc = "write"
    /\ nextHandle <= MaxHandles
    /\ failed' = [failed EXCEPT ![snd[s].w] = TRUE]
    /\ snd' = [snd EXCEPT ![s].pc = "failed"]
    /\ Release
    /\ UNCHANGED <<pipe_writer, conn, pipe, openedAfter, nextHandle, calls>>
    /\ UNCHANGED transformVars

\* write_all returns Err(e): the pipe is broken.  Failures are counted against
\* MaxHandles, so that the reconnect they start can still open a connection.
WriteErr(s) ==
    /\ snd[s].pc = "write"
    /\ nextHandle <= MaxHandles
    /\ failed' = [failed EXCEPT ![snd[s].w] = TRUE]
    /\ snd' = [snd EXCEPT ![s].pc = "failed"]
    /\ UNCHANGED <<pipe_writer, lock, waitq, conn, pipe, openedAfter, nextHandle, calls>>
    /\ UNCHANGED transformVars

\* Faulty variant: the stored writer is kept after a failed write.
SlotKeptAfterWriteError == pipe_writer

\* The slot's value after a failed write: *pipe_guard = None
SlotAfterWriteError == None

ClearSlot(s) ==
    /\ snd[s].pc = "failed"
    /\ pipe_writer' = SlotAfterWriteError
    /\ snd' = [snd EXCEPT ![s].pc = "spawn"]
    /\ UNCHANGED <<lock, waitq, conn, pipe, failed, openedAfter, nextHandle, calls>>
    /\ UNCHANGED transformVars

\* A connection loop as spawn_connection_loop starts it.
NewConn == [pc |-> "open", h |-> None]
NoConn == [pc |-> "none", h |-> None]

FreeConnTasks == {c \in ConnTasks : conn[c].pc = "none"}
Min(S) == CHOOSE x \in S : \A y \in S : x <= y

\* state.spawn_connection_loop() after a failed write.
SpawnReconnect(s) ==
    /\ snd[s].pc = "spawn"
    /\ FreeConnTasks # {}
    /\ conn' = [conn EXCEPT ![Min(FreeConnTasks)] = NewConn]
    /\ snd' = [snd EXCEPT ![s] = [@ EXCEPT !.pc = "reterr", !.spawned = @ + 1]]
    /\ UNCHANGED <<pipe_writer, lock, waitq, pipe, failed, openedAfter, nextHandle, calls>>
    /\ UNCHANGED transformVars

\* return Err(format!("Error writing frame payload: {}", e)), dropping the guard.
ReturnWriteErr(s) ==
    /\ snd[s].pc = "reterr"
    /\ snd' = [snd EXCEPT ![s] = [@ EXCEPT !.pc = "done", !.ret = ErrWrite]]
    /\ Release
    /\ UNCHANGED <<pipe_writer, conn, pipe, failed, openedAfter, nextHandle, calls>>
    /\ UNCHANGED transformVars

\* ------------------------------------------------- spawn_connection_loop
\* ClientOptions::new().open(FRAME_PIPE_PATH) succeeds with a new client.
ConnOpenOk(c) ==
    /\ conn[c].pc = "open"
    /\ nextHandle <= MaxHandles
    /\ conn' = [conn EXCEPT ![c] = [pc |-> "lock", h |-> nextHandle]]
    /\ openedAfter' = [openedAfter EXCEPT ![nextHandle] = {a \in Handles : failed[a]}]
    /\ nextHandle' = nextHandle + 1
    /\ UNCHANGED <<pipe_writer, lock, waitq, snd, pipe, failed, calls>>
    /\ UNCHANGED transformVars

\* Faulty variant: a failed open ends the connection loop.
ConnOpenErrExits(c) ==
    /\ conn[c].pc = "open"
    /\ conn' = [conn EXCEPT ![c] = [pc |-> "none", h |-> None]]
    /\ UNCHANGED <<pipe_writer, lock, waitq, snd, pipe, failed, openedAfter, nextHandle, calls>>
    /\ UNCHANGED transformVars

\* open fails: log, then sleep(1s).
ConnOpenErr(c) ==
    /\ conn[c].pc = "open"
    /\ conn' = [conn EXCEPT ![c].pc = "sleep"]
    /\ UNCHANGED <<pipe_writer, lock, waitq, snd, pipe, failed, openedAfter, nextHandle, calls>>
    /\ UNCHANGED transformVars

\* The sleep ends and the loop tries again.
ConnRetry(c) ==
    /\ conn[c].pc = "sleep"
    /\ conn' = [conn EXCEPT ![c].pc = "open"]
    /\ UNCHANGED <<pipe_writer, lock, waitq, snd, pipe, failed, openedAfter, nextHandle, calls>>
    /\ UNCHANGED transformVars

\* pipe_writer.lock().await
ConnLock(c) ==
    /\ conn[c].pc = "lock"
    /\ Acquire(ConnTask(c))
    /\ conn' = [conn EXCEPT ![c].pc = IF lock = NoTask THEN "store" ELSE "wait"]
    /\ UNCHANGED <<pipe_writer, snd, pipe, failed, openedAfter, nextHandle, calls>>
    /\ UNCHANGED transformVars

ConnWake(c) ==
    /\ conn[c].pc = "wait"
    /\ lock = ConnTask(c)
    /\ conn' = [conn EXCEPT ![c].pc = "store"]
    /\ UNCHANGED <<pipe_writer, lock, waitq, snd, pipe, failed, openedAfter, nextHandle, calls>>
    /\ UNCHANGED transformVars

\* *pipe_guard = Some(writer)
ConnStore(c) ==
    /\ conn[c].pc = "store"
    /\ pipe_writer' = conn[c].h
    /\ conn' = [conn EXCEPT ![c].pc = "exit"]
    /\ UNCHANGED <<lock, waitq, snd, pipe, failed, openedAfter, nextHandle, calls>>
    /\ UNCHANGED transformVars

\* break: the guard is dropped and the task ends.
ConnExit(c) ==
    /\ conn[c].pc = "exit"
    /\ Release
    /\ conn' = [conn EXCEPT ![c] = NoConn]
    /\ UNCHANGED <<pipe_writer, snd, pipe, failed, openedAfter, nextHandle, calls>>
    /\ UNCHANGED transformVars

\* ----------------------------------------------------- frame pipe system
\* FramePipeState::new: an empty slot and one connection loop spawned.
FrameInit ==
    /\ pipe_writer = None
    /\ lock = NoTask
    /\ waitq = <<>>
    /\ snd = [s \in Senders |-> IdleCall]
    /\ conn = [c \in ConnTasks |-> IF c = 1 THEN NewConn ELSE NoConn]
    /\ pipe = [h \in Handles |-> <<>>]
    /\ failed = [h \in Handles |-> FALSE]
    /\ openedAfter = [h \in Handles |-> {}]
    /\ nextHandle = 1
    /\ calls = 0

SenderStep(s) ==
    \/ Validate(s)
    \/ SendLock(s)
    \/ SendWake(s)
    \/ CheckSlot(s)
    \/ \E k \in 1..10 : WriteOk(s, k)
    \/ WriteErr(s)
    \/ ClearSlot(s)
    \/ SpawnReconnect(s)
    \/ ReturnWriteErr(s)

ConnProgress(c) ==
    \/ ConnRetry(c)
    \/ ConnLock(c)
    \/ ConnWake(c)
    \/ ConnStore(c)
    \/ ConnExit(c)

FrameNext ==
    \/ \E s \in Senders, r \in Requests : Invoke(s, r)
    \/ \E s \in Senders : SenderStep(s)
    \/ \E c \in ConnTasks : ConnOpenOk(c)
    \/ \E c \in ConnTasks : ConnOpenErr(c)
    \/ \E c \in ConnTasks : ConnProgress(c)

\* ------------------------------------------------------ transform pipe
Fill(n, b) == [i \in 1..n |-> b]

\* A record with 1.0f (00 00 80 3F) in the second slot and zeros elsewhere.
ExampleRecord ==
    [i \in 1..TRANSFORM_DATA_SIZE |-> IF i = 7 THEN 128 ELSE IF i = 8 THEN 63 ELSE 0]

\* What the native process may send in one go: a whole record, or a part.
Chunks == { ExampleRecord, Fill(40, 1), Fill(24, 2) }

\* An f32 is held as the three fields of its 32 bits: the sign bit, the 8
\* exponent bits and the 23 fraction bits.  b0 is the least significant byte.
F32FromBytes(b0, b1, b2, b3) ==
    [sign |-> b3 \div 128,
     exp |-> 2 * (b3 % 128) + b2 \div 128,
     frac |-> 65536 * (b2 % 128) + 256 * b1 + b0]

\* 0.0f32
F32Zero == F32FromBytes(0, 0, 0, 0)

\* Faulty variant: the four bytes are taken most significant byte first.
ReadF32BE(buf, pos) ==
    IF pos + WORD_SIZE > Len(buf)
        THEN [ok |-> FALSE, val |-> F32Zero, pos |-> pos]
        ELSE [ok |-> TRUE,
              val |-> F32FromBytes(buf[pos + 4], buf[pos + 3], buf[pos + 2],
                                   buf[pos + 1]),
              pos |-> pos + WORD_SIZE]

\* byteorder's read_f32::<LittleEndian> on a Cursor over buf at position pos:
\* an error when fewer than 4 bytes remain, else the value and the new position.
ReadF32LE(buf, pos) ==
    IF pos + WORD_SIZE > Len(buf)
        THEN [ok |-> FALSE, val |-> F32Zero, pos |-> pos]
        ELSE [ok |-> TRUE,
              val |-> F32FromBytes(buf[pos + 1], buf[pos + 2], buf[pos + 3],
                                   buf[pos + 4]),
              pos |-> pos + WORD_SIZE]

Zeros == [i \in 1..MATRIX_LEN |-> F32Zero]

\* The loop of deserialize_matrix from its k-th round on: read_f32 at the
\* cursor, push, and the all-zero matrix as soon as one read fails.
\* `fallback` tells which return was taken: that of the error arm or the
\* last line's.
RECURSIVE DeserializeFrom(_, _, _, _)
DeserializeFrom(buf, pos, k, acc) ==
    IF k = MATRIX_LEN THEN [matrix |-> acc, fallback |-> FALSE]
    ELSE IF ReadF32LE(buf, pos).ok
            THEN DeserializeFrom(buf, pos + WORD_SIZE, k + 1,
                                 Append(acc, ReadF32LE(buf, pos).val))
            ELSE [matrix |-> Zeros, fallback |-> TRUE]

deserialize_matrix(buf) == DeserializeFrom(buf, 0, 0, <<>>).matrix

\* deserialize_matrix(buf) returns from its error arm.
ZeroFallback(buf) == DeserializeFrom(buf, 0, 0, <<>>).fallback

\* Faulty variant: what the last connection left in the buffer is kept.
BufferKept == buffer

\* let mut buffer = [0u8; TRANSFORM_DATA_SIZE]: nothing of it is filled when
\* handle_transform_connection starts.
FreshBuffer == <<>>

\* ClientOptions::new().open(TRANSFORM_PIPE_PATH) succeeds; the handler starts
\* with a new BufReader and a new buffer.

TOpenOk ==
    /\ tpc = "connecting"
    /\ tconn < MaxTConns
    /\ tconn' = tconn + 1
    /\ closed' = "open"
    /\ inflight' = <<>>
    /\ buffer' = FreshBuffer
    /\ bufFrom' = IF FreshBuffer = <<>> THEN {} ELSE bufFrom
    /\ tpc' = "reading"
    /\ UNCHANGED <<matrix, stream, records, events, sends>>
    /\ UNCHANGED <<reconnects, tfails>>
    /\ UNCHANGED frameVars

\* Faulty variant: the listener gives up after MaxFails failed opens in a row.
TOpenErrBounded ==
    /\ tpc = "connecting"
    /\ tpc' = IF tfails < MaxFails THEN "sleep" ELSE "terminated"
    /\ tfails' = IF tfails < MaxFails THEN tfails + 1 ELSE tfails
    /\ UNCHANGED <<tconn, closed, inflight, buffer, bufFrom, matrix, stream, records,
                   events, sends, reconnects>>
    /\ UNCHANGED frameVars

\* open fails: log, then sleep(1s).
TOpenErr ==
    /\ tpc = "connecting"
    /\ tpc' = "sleep"
    /\ tfails' = IF tfails < MaxFails THEN tfails + 1 ELSE tfails
    /\ UNCHANGED <<tconn, closed, inflight, buffer, bufFrom, matrix, stream, records,
                   events, sends, reconnects>>
    /\ UNCHANGED frameVars

TRetry ==
    /\ tpc = "sleep"
    /\ tpc' = "connecting"
    /\ UNCHANGED <<tconn, closed, inflight, buffer, bufFrom, matrix, stream, records,
                   events, sends>>
    /\ UNCHANGED <<reconnects, tfails>>
    /\ UNCHANGED frameVars

Connected == tpc \in {"reading", "emit"}

\* The native process writes a chunk to the connection.
ServerSend(chunk) ==
    /\ Connected
    /\ closed = "open"
    /\ sends < MaxSends
    /\ sends' = sends + 1
    /\ inflight' = inflight \o chunk
    /\ stream' = [stream EXCEPT ![tconn] = @ \o chunk]
    /\ UNCHANGED <<tpc, tconn, closed, buffer, bufFrom, matrix, records, events>>
    /\ UNCHANGED <<reconnects, tfails>>
    /\ UNCHANGED frameVars

\* The native process closes its end.  The last connection of a behaviour
\* stays up, so that a reconnect can always open one.
ServerClose ==
    /\ Connected
    /\ closed = "open"
    /\ tconn < MaxTConns
    /\ closed' = "eof"
    /\ UNCHANGED <<tpc, tconn, inflight, buffer, bufFrom, matrix, stream, records,
                   events, sends>>
    /\ UNCHANGED <<reconnects, tfails>>
    /\ UNCHANGED frameVars

\* The pipe breaks.
ServerBreak ==
    /\ Connected
    /\ closed = "open"
    /\ tconn < MaxTConns
    /\ closed' = "broken"
    /\ UNCHANGED <<tpc, tconn, inflight, buffer, bufFrom, matrix, stream, records,
                   events, sends>>
    /\ UNCHANGED <<reconnects, tfails>>
    /\ UNCHANGED frameVars

\* Faulty variant: a read error other than the end of the stream ends the listener.
AfterReadStops(result) ==
    IF result.kind = "Ok" /\ result.n = TRANSFORM_DATA_SIZE THEN "emit"
    ELSE IF result.kind = "Err" THEN "terminated"
    ELSE "disconnected"

\* The arm of the match on read_exact's result that is taken.
AfterRead(result) ==
    IF result.kind = "Ok" /\ result.n = TRANSFORM_DATA_SIZE THEN "emit"
    ELSE "disconnected"

\* read_exact takes the bytes that have arrived; with the buffer full it
\* returns Ok(len), and the record is deserialized.
ReadBytes ==
    /\ tpc = "reading"
    /\ inflight # <<>>
    /\ LET need == TRANSFORM_DATA_SIZE - Len(buffer)
           k == IF Len(inflight) < need THEN Len(inflight) ELSE need
           filled == buffer \o SubSeq(inflight, 1, k)
       IN  /\ inflight' = SubSeq(inflight, k + 1, Len(inflight))
           /\ buffer' = filled
           /\ bufFrom' = bufFrom \cup {tconn}
           /\ IF Len(filled) = TRANSFORM_DATA_SIZE
                 THEN /\ tpc' = AfterRead([kind |-> "Ok", n |-> Len(filled)])
                      /\ matrix' = deserialize_matrix(filled)
                      /\ records' = Append(records, [bytes |-> filled,
                                                     conns |-> bufFrom \cup {tconn}])
                 ELSE /\ UNCHANGED <<tpc, matrix, records>>
    /\ UNCHANGED <<tconn, closed, stream, events, sends>>
    /\ UNCHANGED <<reconnects, tfails>>
    /\ UNCHANGED frameVars

\* Faulty variant: a short read is handed on as if it were a record.
ReadEofEmitsPartial ==
    /\ tpc = "reading"
    /\ inflight = <<>>
    /\ closed = "eof"
    /\ tpc' = IF buffer = <<>> THEN "disconnected" ELSE "emit"
    /\ matrix' = deserialize_matrix(buffer)
    /\ UNCHANGED <<tconn, closed, inflight, buffer, bufFrom, stream, records,
                   events, sends>>
    /\ UNCHANGED <<reconnects, tfails>>
    /\ UNCHANGED frameVars

\* read_exact meets the end of the stream before the buffer is full.
ReadEof ==
    /\ tpc = "reading"
    /\ inflight = <<>>
    /\ closed = "eof"
    /\ tpc' = AfterRead([kind |-> "UnexpectedEof", n |-> Len(buffer)])
    /\ UNCHANGED <<tconn, closed, inflight, buffer, bufFrom, matrix, stream, records,
                   events, sends>>
    /\ UNCHANGED <<reconnects, tfails>>
    /\ UNCHANGED frameVars

\* read_exact fails with another error.
ReadErr ==
    /\ tpc = "reading"
    /\ closed = "broken"
    /\ tpc' = AfterRead([kind |-> "Err", n |-> Len(buffer)])
    /\ UNCHANGED <<tconn, closed, inflight, buffer, bufFrom, matrix, stream, records,
                   events, sends>>
    /\ UNCHANGED <<reconnects, tfails>>
    /\ UNCHANGED frameVars

\* app_handle.emit("transform-update", payload), with its outcome; then the
\* loop reads the next record into the buffer from its start.
Emit(ok) ==
    /\ tpc = "emit"
    /\ events' = Append(events, [matrix |-> matrix, ok |-> ok])
    /\ tpc' = "reading"
    /\ buffer' = <<>>
    /\ bufFrom' = {}
    /\ UNCHANGED <<tconn, closed, inflight, matrix, stream, records, sends>>
    /\ UNCHANGED <<reconnects, tfails>>
    /\ UNCHANGED frameVars

EmitOk == Emit(TRUE)

\* Faulty variant: a failed emit ends the handling of the connection.
EmitErrDisconnects ==
    /\ tpc = "emit"
    /\ events' = Append(events, [matrix |-> matrix, ok |-> FALSE])
    /\ tpc' = "disconnected"
    /\ UNCHANGED <<tconn, closed, inflight, buffer, bufFrom, matrix, stream, records,
                   sends>>
    /\ UNCHANGED <<reconnects, tfails>>
    /\ UNCHANGED frameVars

EmitErr == Emit(FALSE)

\* handle_transform_connection has returned: log, and the outer loop goes on.
Reconnect ==
    /\ tpc = "disconnected"
    /\ tpc' = "connecting"
    /\ reconnects' = reconnects + 1
    /\ tfails' = 0
    /\ UNCHANGED <<tconn, closed, inflight, buffer, bufFrom, matrix, stream, records,
                   events, sends>>
    /\ UNCHANGED frameVars

\* The listener as run() spawns it.
TransformInit ==
    /\ tpc = "connecting"
    /\ tconn = 0
    /\ closed = "open"
    /\ inflight = <<>>
    /\ buffer = <<>>
    /\ bufFrom = {}
    /\ matrix = Zeros
    /\ stream = [c \in 1..MaxTConns |-> <<>>]
    /\ records = <<>>
    /\ events = <<>>
    /\ sends = 0
    /\ reconnects = 0
    /\ tfails = 0

ListenerStep ==
    \/ TRetry
    \/ ReadBytes
    \/ ReadEof
    \/ ReadErr
    \/ EmitOk
    \/ EmitErr
    \/ Reconnect

TransformNext ==
    \/ TOpenOk
    \/ TOpenErr
    \/ ListenerStep
    \/ \E chunk \in Chunks : ServerSend(chunk)
    \/ ServerClose
    \/ ServerBreak

\* ---------------------------------------- deserialize_matrix on its own
\* Slices of every length up to MaxBufLen: prefixes of a record of zeros, of
\* one of 0xFF bytes, of one whose bytes all differ from their neighbours,
\* and of the example record.
Ramp == [i \in 1..MaxBufLen |-> (37 * i) % 256]

Buffers ==
    { SubSeq(p, 1, n) :
        p \in { Fill(MaxBufLen, 0), Fill(MaxBufLen, 255), Ramp,
                ExampleRecord \o Fill(MaxBufLen - TRANSFORM_DATA_SIZE, 0) },
        n \in 0..MaxBufLen }

\* deserialize_matrix is about to be called with some slice.
DeserInit ==
    /\ FrameInit
    /\ tpc = "deserialize"
    /\ buffer \in Buffers
    /\ matrix = <<>>
    /\ tconn = 0
    /\ closed = "open"
    /\ inflight = <<>>
    /\ bufFrom = {}
    /\ stream = [c \in 1..MaxTConns |-> <<>>]
    /\ records = <<>>
    /\ events = <<>>
    /\ sends = 0
    /\ reconnects = 0
    /\ tfails = 0

\* The call returns its Vec<f32>.
Deserialize ==
    /\ tpc = "deserialize"
    /\ matrix' = deserialize_matrix(buffer)
    /\ tpc' = "returned"
    /\ UNCHANGED <<tconn, closed, inflight, buffer, bufFrom, stream, records,
                   events, sends, reconnects, tfails>>
    /\ UNCHANGED frameVars

DeserNext == Deserialize

\* ------------------------------------------------------ specifications
DeserSpec == DeserInit /\ [][DeserNext]_vars

Init == FrameInit /\ TransformInit

Next == FrameNext \/ TransformNext

\* The whole program.
Spec == Init /\ [][Next]_vars

\* The two pipes share no state: each is checked with the other at rest.
FrameSpec == Init /\ [][FrameNext]_vars

TransformSpec == Init /\ [][TransformNext]_vars

\* Fairness of the Tokio runtime and of the pipe: every spawned task and every
\* command future that can run is polled, every started write completes, and
\* an open that is tried again and again succeeds at some point.
FrameFair ==
    /\ \A s \in Senders : WF_vars(SenderStep(s))
    /\ \A c \in ConnTasks : WF_vars(ConnProgress(c))
    /\ \A c \in ConnTasks : SF_vars(ConnOpenOk(c))

FrameLive == FrameSpec /\ FrameFair

\* The listener task is polled whenever it can run, and an open that is tried
\* again and again succeeds at some point.
TransformFair ==
    /\ WF_vars(ListenerStep)
    /\ WF_vars(TOpenErr)
    /\ SF_vars(TOpenOk)

TransformLive == TransformSpec /\ TransformFair

\* ------------------------------------------------------------ properties
Failing(s) == snd[s].pc \in {"failed", "spawn", "reterr"}

\* C1: a writer whose write_all failed is in the slot only while the failing
\* call still holds the lock and has not yet cleared it, and every call that
\* is writing took from the slot a writer that has not failed.
C1_FailedWriterCleared ==
    /\ \A h \in Handles :
          (failed[h] /\ pipe_writer = h) =>
              \E s \in Senders : /\ snd[s].pc = "failed"
                                  /\ snd[s].w = h
                                  /\ lock = SendTask(s)
    /\ \A s \in Senders : Failing(s) => lock = SendTask(s)
    /\ \A s \in Senders : snd[s].pc = "write" => ~failed[snd[s].w]

\* A call looks at the slot after another call's write failed, and finds None.
C1_Witness ==
    \E s, u \in Senders :
        /\ s # u
        /\ snd[s].ret = ErrWrite
        /\ failed[snd[s].w]
        /\ snd[u].pc = "locked"
        /\ pipe_writer = None

\* C2: a call that looks at the slot either returns not-connected or starts
\* writing to a handle that was opened after every write failure so far, and
\* bytes are only ever written to a handle on which no write has failed.
C2_NoReuseAfterFailure ==
    [][ /\ \A s \in Senders :
              (snd[s].pc = "locked" /\ snd'[s] # snd[s]) =>
                  \/ snd'[s].ret = ErrNotConnected
                  \/ /\ snd'[s].pc = "write"
                     /\ \A a \in Handles :
                            failed[a] => a \in openedAfter[snd'[s].w]
        /\ \A h \in Handles : pipe'[h] # pipe[h] => ~failed[h] ]_vars

\* After a failure on one handle a later call has written a whole payload to
\* the handle the reconnect installed.
C2_Witness ==
    \E s, u \in Senders :
        /\ snd[s].ret = ErrWrite
        /\ snd[u].ret = RetOk
        /\ snd[s].w \in openedAfter[snd[u].w]

\* C3: after a write failure the slot holds, at some later point, a writer on
\* which no write has failed; and a connection loop ends only by having stored
\* its own client in the slot, a failed open leading only to the retry sleep.
C3_SelfHealing ==
    /\ \A h \in Handles :
          failed[h] ~> (pipe_writer # None /\ ~failed[pipe_writer])
    /\ [][ \A c \in ConnTasks :
              /\ (conn[c].pc # "none" /\ conn'[c].pc = "none") =>
                     (conn[c].h # None /\ pipe_writer = conn[c].h)
              /\ (conn[c].pc = "open" /\ conn'[c].pc \notin {"open", "lock"}) =>
                     conn'[c].pc = "sleep" ]_vars

\* A write has failed on one handle and the slot holds a later writer on
\* which no write has failed.
C3_Witness ==
    /\ \E h \in Handles : failed[h]
    /\ pipe_writer # None
    /\ ~failed[pipe_writer]

\* C4: the step of a call that holds the lock and finds the slot empty is its
\* return with the not-connected error; it has spawned nothing and written
\* nothing, and the step changes neither the slot, the connection loops, the
\* pipes nor the connections opened.
C4_NotConnectedFailsFast ==
    [][ \A s \in Senders :
          (snd[s].pc = "locked" /\ pipe_writer = None /\ snd'[s] # snd[s]) =>
              /\ snd'[s].pc = "done"
              /\ snd'[s].ret = ErrNotConnected
              /\ snd'[s].spawned = 0
              /\ snd'[s].n = 0
              /\ snd'[s].w = None
              /\ pipe_writer' = None
              /\ UNCHANGED <<conn, pipe, nextHandle, openedAfter>> ]_vars

C4_Witness ==
    \E s \in Senders :
        /\ snd[s].ret = ErrNotConnected
        /\ ParseRequest(snd[s].req) = "ok"
        /\ pipe_writer = None

\* C5: every invoked call returns at some point, with Ok or an error, and a
\* call that returned Ok has handed its whole payload to the pipe.
C5_EveryCallReturns ==
    /\ \A s \in Senders : (snd[s].pc # "idle") ~> (snd[s].pc = "done")
    /\ [](\A s \in Senders :
             /\ snd[s].pc = "done" => snd[s].ret # Pending
             /\ snd[s].ret = RetOk =>
                    /\ snd[s].n = Len(snd[s].req.bytes)
                    /\ Len(pipe[snd[s].w]) >= snd[s].start + snd[s].n)

\* Every call has returned, one with Ok and one with a write error.
C5_Witness ==
    /\ \A s \in Senders : snd[s].pc = "done"
    /\ \E s \in Senders : snd[s].ret = RetOk
    /\ \E s \in Senders : snd[s].ret = ErrWrite

\* C6 as stated: with no handle stored and no open having succeeded, a call
\* fails after exactly 2 attempts.
C6_Original ==
    \A s \in Senders :
        (snd[s].pc = "done" /\ snd[s].ret = ErrNotConnected /\ nextHandle = 1) =>
            snd[s].tries = 2

\* C6 amended: a call that finds no handle stored fails after exactly one
\* look at the slot, having started no connection attempt of its own,
\* whether or not an open has succeeded.
C6_FailsAfterOneAttempt ==
    \A s \in Senders :
        (snd[s].pc = "done" /\ snd[s].ret = ErrNotConnected) =>
            (snd[s].tries = 1 /\ snd[s].spawned = 0)

\* A call failed as not connected while every open so far had failed.
C6_Witness ==
    \E s \in Senders :
        /\ snd[s].pc = "done"
        /\ snd[s].ret = ErrNotConnected
        /\ nextHandle = 1
        /\ \E c \in ConnTasks : conn[c].pc = "sleep"

Malformed(req) == ~req.raw \/ Len(req.bytes) < HEADER_SIZE

\* C7: the first step of a call whose body is not raw or is shorter than 8
\* bytes is its return with the matching error; the call has not looked at
\* the slot, and the step changes neither the lock, its queue, the slot, the
\* pipes nor the connection loops.
C7_MalformedRejected ==
    [][ \A s \in Senders :
          (snd[s].pc = "start" /\ Malformed(snd[s].req) /\ snd'[s] # snd[s]) =>
              /\ snd'[s].pc = "done"
              /\ snd'[s].ret = IF snd[s].req.raw THEN ErrTooSmall ELSE ErrNotRaw
              /\ snd'[s].tries = 0
              /\ snd'[s].n = 0
              /\ snd'[s].spawned = 0
              /\ UNCHANGED <<pipe_writer, lock, waitq, conn, pipe, failed,
                             nextHandle>> ]_vars

\* A 7-byte payload was rejected while a writer was stored, and a non-raw
\* body was rejected too.
C7_Witness ==
    /\ \E s \in Senders : snd[s].ret = ErrTooSmall /\ Len(snd[s].req.bytes) = 7
    /\ \E s \in Senders : snd[s].ret = ErrNotRaw
    /\ pipe_writer # None

Width(req) == ReadU32LE(req.bytes, 0).val
Height(req) == ReadU32LE(req.bytes, 4).val
DataLen(req) == Len(req.bytes) - HEADER_SIZE

\* C8: the bytes a call that returned Ok added to its connection are its
\* payload, header and data unchanged and in one piece; and a call with at
\* least 8 raw bytes is never refused for its content: it returns Ok, the
\* not-connected error or the write error, whatever width and height say.
C8_PayloadVerbatim ==
    \A s \in Senders :
        /\ snd[s].ret = RetOk =>
               /\ Len(pipe[snd[s].w]) >= snd[s].start + Len(snd[s].req.bytes)
               /\ SubSeq(pipe[snd[s].w], snd[s].start + 1,
                         snd[s].start + Len(snd[s].req.bytes)) = snd[s].req.bytes
        /\ (snd[s].pc = "done" /\ ~Malformed(snd[s].req)) =>
               snd[s].ret \in {RetOk, ErrNotConnected, ErrWrite}

\* A frame whose data length differs from width * height was written whole,
\* after another frame on the same connection.
C8_Witness ==
    \E s \in Senders :
        /\ snd[s].ret = RetOk
        /\ DataLen(snd[s].req) # Width(snd[s].req) * Height(snd[s].req)
        /\ snd[s].start > 0


Phase ==
    CASE tpc \in {"connecting", "sleep"} -> "Connecting"
      [] tpc \in {"reading", "emit"} -> "Connected"
      [] tpc = "disconnected" -> "Disconnected"
      [] OTHER -> "Terminated"

\* C9: the listener starts in Connecting and changes phase only from
\* Connecting to Connected, from Connected to Disconnected and from
\* Disconnected to Connecting; a read that does not fill the buffer (error,
\* end of stream, short read) leaves Connected for Disconnected, from where the
\* listener gets back to Connecting; and the task is never terminated.
C9_ListenerCycle ==
    /\ Phase = "Connecting"
    /\ [][ /\ Phase' # Phase =>
                 <<Phase, Phase'>> \in { <<"Connecting", "Connected">>,
                                         <<"Connected", "Disconnected">>,
                                         <<"Disconnected", "Connecting">> }
           /\ (tpc = "reading" /\ tpc' \notin {"reading", "emit"}) =>
                 tpc' = "disconnected"
           /\ Phase' # "Terminated" ]_vars
    /\ [](Phase # "Terminated")
    /\ (Connected /\ closed # "open") ~> (Phase = "Connecting")
    /\ (Phase = "Disconnected") ~> (Phase = "Connecting")

\* The listener is connected for the second time, after a short read on the
\* first connection.
C9_Witness ==
    /\ tconn = 2
    /\ tpc = "reading"
    /\ Len(stream[1]) % TRANSFORM_DATA_SIZE # 0

\* The f32 whose little-endian bytes are bytes 4i-3..4i: bit 31 is the sign,
\* bits 30..23 the exponent, bits 22..0 the fraction.
F32At(bytes, i) ==
    [sign |-> bytes[4 * i] \div 128,
     exp |-> (bytes[4 * i] % 128) * 2 + bytes[4 * i - 1] \div 128,
     frac |-> bytes[4 * i - 3] + bytes[4 * i - 2] * 256
              + (bytes[4 * i - 1] % 128) * 65536]

\* The connection record i was read from, and its place among that
\* connection's records.
ConnOf(i) == CHOOSE c \in records[i].conns : TRUE
PlaceOf(i) ==
    Cardinality({j \in 1..i : records[j].conns = records[i].conns})

\* C10: emit has been called once for each complete record read, in the
\* order read, with the 16 values of that record (the record just read being
\* emitted next); each record is made of bytes of one connection, and is the
\* next 64 bytes that connection carried.
C10_EventsFollowRecords ==
    /\ Len(events) = IF tpc = "emit" THEN Len(records) - 1 ELSE Len(records)
    /\ \A i \in 1..Len(events) :
          events[i].matrix = [j \in 1..MATRIX_LEN |-> F32At(records[i].bytes, j)]
    /\ tpc = "emit" =>
          matrix = [j \in 1..MATRIX_LEN |-> F32At(records[Len(records)].bytes, j)]
    /\ \A i \in 1..Len(records) :
          /\ Cardinality(records[i].conns) = 1
          /\ Len(stream[ConnOf(i)]) >= TRANSFORM_DATA_SIZE * PlaceOf(i)
          /\ records[i].bytes =
                SubSeq(stream[ConnOf(i)],
                       TRANSFORM_DATA_SIZE * (PlaceOf(i) - 1) + 1,
                       TRANSFORM_DATA_SIZE * PlaceOf(i))

\* Two records were emitted, different ones from different connections, the
\* first connection having ended in the middle of a record.
C10_Witness ==
    /\ Len(events) = 2
    /\ records[1].conns # records[2].conns
    /\ records[1].bytes # records[2].bytes
    /\ Len(stream[1]) % TRANSFORM_DATA_SIZE # 0

\* The events emitted for records of connection c.
EventsOf(c) == {i \in 1..Len(events) : records[i].conns = {c}}

\* The connection opened last has ended at the end of the stream in the
\* middle of a record, and the read loop has seen it.
ShortReadEnd ==
    /\ tpc \in {"disconnected", "connecting", "sleep"}
    /\ tconn >= 1
    /\ closed = "eof"
    /\ Len(stream[tconn]) % TRANSFORM_DATA_SIZE # 0

\* C11: a connection that ends at the end of the stream with a record partly
\* delivered does not end the listener; read_exact's short read leaves the
\* events and the records as they were, so that the connection has one
\* event for each of its complete records and none for the truncated one;
\* and the handler's return is followed by one reconnect, the count of
\* reconnects being the count of connections that have ended.
C11_ShortReadReconnectsOnce ==
    /\ [](Phase # "Terminated")
    /\ [](ShortReadEnd =>
            /\ Len(events) = Len(records)
            /\ Cardinality(EventsOf(tconn)) =
                  Len(stream[tconn]) \div TRANSFORM_DATA_SIZE
            /\ reconnects = IF tpc = "disconnected" THEN tconn - 1 ELSE tconn)
    /\ [][ /\ tpc = "reading"
           /\ closed = "eof"
           /\ inflight = <<>>
           /\ Len(buffer) < TRANSFORM_DATA_SIZE
           /\ tpc' # tpc
           => /\ tpc' = "disconnected"
              /\ events' = events
              /\ records' = records
              /\ reconnects' = reconnects ]_vars
    /\ [][ tpc = "disconnected" /\ tpc' # tpc
           => tpc' = "connecting" /\ reconnects' = reconnects + 1 ]_vars

\* The first connection carried 40 bytes and ended; the listener has gone
\* back to connecting, once, and nothing was emitted.
C11_Witness ==
    /\ tpc = "connecting"
    /\ tconn = 1
    /\ closed = "eof"
    /\ Len(stream[1]) = 40
    /\ events = <<>>
    /\ reconnects = 1

\* C12: the step in which emit fails leaves the listener Connected on the
\* same connection, reading the next record; it does not end the connection,
\* start a reconnect or end the task.
C12_EmitFailureKeepsConnection ==
    [][ /\ tpc = "emit"
        /\ Len(events') = Len(events) + 1
        /\ ~events'[Len(events')].ok
        => /\ tpc' = "reading"
           /\ tconn' = tconn
           /\ closed' = closed
           /\ inflight' = inflight
           /\ reconnects' = reconnects ]_vars

\* The emit of the first record failed, and the second record of the same
\* connection was read and emitted.
C12_Witness ==
    /\ Len(events) = 2
    /\ ~events[1].ok
    /\ events[2].ok
    /\ records[1].conns = records[2].conns
    /\ reconnects = 0

\* C13: an open that fails leads to the sleep and then to another open,
\* however many opens have failed before; and under the fairness of
\* TransformFair a listener that is connecting gets Connected.
C13_RetriesUntilConnected ==
    /\ [][ tpc = "connecting" /\ tpc' # tpc /\ tconn' = tconn
           => tpc' = "sleep" ]_vars
    /\ [][ tpc = "sleep" /\ tpc' # tpc => tpc' = "connecting" ]_vars
    /\ (tpc = "sleep") ~> (tpc = "connecting")
    /\ (Phase = "Connecting") ~> Connected

\* Connected after MaxFails failed opens in a row.
C13_Witness ==
    /\ Connected
    /\ tfails = MaxFails

\* Some call has not returned, or some connection loop has not ended.
Active ==
    \/ \E s \in Senders : snd[s].pc \notin {"idle", "done"}
    \/ \E c \in ConnTasks : conn[c].pc # "none"

\* C14: the mutex is never free while a task waits for it; the task that
\* holds it can always take its next step, also in the middle of a write;
\* while a call or a connection loop is under way some step is possible; and
\* under the fairness of FrameFair every task waiting for the mutex gets it.
C14_NoDeadlock ==
    /\ [](lock = NoTask => waitq = <<>>)
    /\ [](\A s \in Senders : lock = SendTask(s) => ENABLED SenderStep(s))
    /\ [](\A c \in ConnTasks : lock = ConnTask(c) => ENABLED ConnProgress(c))
    /\ [](Active => ENABLED FrameNext)
    /\ \A s \in Senders : (snd[s].pc = "wait") ~> (snd[s].pc = "locked")
    /\ \A c \in ConnTasks : (conn[c].pc = "wait") ~> (conn[c].pc = "store")

\* A call is in the middle of write_all, holding the mutex, and another call
\* is queued for the mutex behind it.
C14_Witness ==
    \E s, u \in Senders :
        /\ snd[s].pc = "write"
        /\ lock = SendTask(s)
        /\ snd[s].n > 0
        /\ snd[s].n < Len(snd[s].req.bytes)
        /\ snd[u].pc = "wait"
        /\ waitq = <<SendTask(u)>>

\* Connection loops that have not yet stored a handle.
NotStored == {c \in ConnTasks : conn[c].pc \in {"open", "sleep", "lock", "wait", "store"}}

\* C16: while no call is between a failed write_all and its return, either
\* the slot holds a writer or one connection loop exists that has not yet
\* stored its handle, and not both; at most one connection loop exists at a
\* time; and a loop stores its handle into an empty slot only.
C16_WriterOrOneConnector ==
    /\ []((\A s \in Senders : ~Failing(s)) =>
            /\ (pipe_writer # None) # (Cardinality(NotStored) = 1)
            /\ pipe_writer # None => NotStored = {})
    /\ [](Cardinality({c \in ConnTasks : conn[c].pc # "none"}) <= 1)
    /\ [][ \A c \in ConnTasks :
              conn[c].pc = "store" /\ conn'[c].pc = "exit" => pipe_writer = None ]_vars

\* After a failed write the slot is empty, the one loop the failing call
\* spawned has opened a connection and waits to store it, and a later call
\* found the slot empty without spawning anything.
C16_Witness ==
    /\ pipe_writer = None
    /\ \E c \in ConnTasks : conn[c].pc = "store" /\ NotStored = {c}
    /\ \E s \in Senders : snd[s].ret = ErrWrite
    /\ \E s \in Senders : snd[s].ret = ErrNotConnected /\ snd[s].turn = 2

\* C17: the slot starts empty; it changes only from empty to the handle a
\* connection loop opened, in that loop's store, and from a handle to empty
\* in the call whose write_all on that handle failed; a step in which a call
\* returns Ok, not connected or a rejection leaves the slot as it was.
C17_SlotChanges ==
    /\ pipe_writer = None
    /\ [][ pipe_writer' # pipe_writer =>
             \/ /\ pipe_writer = None
                /\ \E c \in ConnTasks : /\ conn[c].pc = "store"
                                         /\ conn[c].h = pipe_writer'
                                         /\ conn[c].h # None
                                         /\ conn'[c].pc = "exit"
             \/ /\ pipe_writer' = None
                /\ \E s \in Senders : /\ snd[s].pc = "failed"
                                       /\ snd[s].w = pipe_writer
                                       /\ failed[pipe_writer]
                                       /\ snd'[s].pc = "spawn" ]_vars
    /\ [][ \A s \in Senders :
              /\ snd[s].ret = Pending
              /\ snd'[s].ret \in {RetOk, ErrNotConnected, ErrNotRaw, ErrTooSmall,
                                   ErrWidth, ErrHeight}
              => pipe_writer' = pipe_writer ]_vars
    /\ [][ \A s \in Senders :
              snd[s].pc \in {"write", "locked", "start", "lock", "wait"}
              /\ snd'[s] # snd[s] => pipe_writer' = pipe_writer ]_vars

\* The slot has gone from empty to the first handle, back to empty after a
\* failed write, and to the second handle; one call returned Ok.
C17_Witness ==
    /\ pipe_writer = 2
    /\ failed[1]
    /\ \E s \in Senders : snd[s].ret = ErrWrite /\ snd[s].w = 1
    /\ \E s \in Senders : snd[s].ret = RetOk

Writing == {s \in Senders : snd[s].pc = "write"}

\* C18: at most one call is inside write_all; that call holds the mutex and
\* writes to the handle in the slot; no connection loop is at its store
\* while a write is in progress, and the slot does not change in a step
\* taken during a write.
C18_WritesSerialized ==
    /\ [](Cardinality(Writing) <= 1)
    /\ [](\A s \in Writing : lock = SendTask(s) /\ pipe_writer = snd[s].w)
    /\ [](Writing # {} => \A c \in ConnTasks : conn[c].pc \notin {"store", "exit"})
    /\ [][ Writing # {} => pipe_writer' = pipe_writer ]_vars

\* A call is in write_all with part of its payload written while the other
\* call has passed its checks and is about to ask for the mutex.
C18_Witness ==
    \E s, u \in Senders :
        /\ snd[s].pc = "write"
        /\ snd[s].n = WriteChunk
        /\ snd[u].pc = "lock"

\* The call that was the t-th to hold the mutex.
CallAt(t) == CHOOSE s \in Senders : snd[s].turn = t

\* What the first t holders of the mutex have written to handle h, one after
\* the other.
RECURSIVE WrittenUpTo(_, _)
WrittenUpTo(h, t) ==
    IF t = 0 THEN <<>>
    ELSE WrittenUpTo(h, t - 1) \o
         (IF snd[CallAt(t)].w = h
             THEN SubSeq(snd[CallAt(t)].req.bytes, 1, snd[CallAt(t)].n)
             ELSE <<>>)

\* Calls whose payload is on handle h in part only.
Truncated(h) == {s \in Senders : snd[s].w = h /\ snd[s].n < Len(snd[s].req.bytes)}

\* C19: the bytes on a connection are what the calls wrote to it, call by
\* call in the order in which they held the mutex; a call that returned Ok
\* wrote its whole payload; at most one call wrote a part only, it is the
\* last to have written to that connection, and once it has returned it is
\* the one call that returned the write error there.
C19_PipeIsConcatenation ==
    \A h \in Handles :
        /\ pipe[h] = WrittenUpTo(h, LockTurns)
        /\ \A s \in Senders :
              snd[s].w = h /\ snd[s].ret = RetOk => snd[s].n = Len(snd[s].req.bytes)
        /\ Cardinality(Truncated(h)) <= 1
        /\ Cardinality({s \in Senders : snd[s].w = h /\ snd[s].ret = ErrWrite}) <= 1
        /\ \A s \in Senders :
              snd[s].w = h /\ snd[s].ret = ErrWrite => s \in Truncated(h)
        /\ \A s \in Truncated(h) :
              /\ snd[s].pc = "done" => snd[s].ret = ErrWrite
              /\ \A u \in Senders : snd[u].w = h => snd[u].turn <= snd[s].turn

\* The second call invoked held the mutex first and wrote its payload whole;
\* the first call invoked wrote a part of its payload after it and returned
\* the write error.
C19_Witness ==
    /\ snd[2].ret = RetOk
    /\ snd[1].ret = ErrWrite
    /\ snd[1].w = snd[2].w
    /\ snd[2].turn < snd[1].turn
    /\ snd[1].n > 0
    /\ Len(pipe[snd[1].w]) = Len(snd[2].req.bytes) + snd[1].n

\* 1.0f32, 0x3F800000: sign 0, exponent 127, fraction 0.
OneF32 == [sign |-> 0, exp |-> 127, frac |-> 0]

ZeroF32 == [sign |-> 0, exp |-> 0, frac |-> 0]

\* C15: deserialize_matrix returns 16 elements for every slice; for a slice
\* of 64 bytes or more element i is the little-endian value of bytes
\* 4i-3..4i and the error arm is not taken; the error arm is taken exactly
\* for the slices shorter than 64 bytes, and its result is 16 zeros; the
\* example record gives 1.0 in the second place and zeros elsewhere.
C15_DeserializeMatrix ==
    tpc = "returned" =>
        /\ Len(matrix) = MATRIX_LEN
        /\ Len(buffer) >= TRANSFORM_DATA_SIZE =>
              /\ ~ZeroFallback(buffer)
              /\ \A i \in 1..MATRIX_LEN : matrix[i] = F32At(buffer, i)
        /\ ZeroFallback(buffer) <=> Len(buffer) < TRANSFORM_DATA_SIZE
        /\ ZeroFallback(buffer) => matrix = [i \in 1..MATRIX_LEN |-> ZeroF32]
        /\ buffer = ExampleRecord =>
              matrix = [i \in 1..MATRIX_LEN |-> IF i = 2 THEN OneF32 ELSE ZeroF32]

\* The example record has been deserialized to 1.0 in the second place.
C15_Witness ==
    /\ tpc = "returned"
    /\ buffer = ExampleRecord
    /\ matrix[2] = OneF32
    /\ matrix[1] = ZeroF32

====
